---- MODULE Spec2Model ----
(***************************************************************************)
(* Cross-venue arbitrage: the order book, the simulated wallet, the       *)
(* CrossTrade settlement state machine, the Trader scanner and the tick   *)
(* loop of simulate.py.                                                    *)
(*                                                                         *)
(* Python floats are modelled as exact rationals <<n, d>> (d > 0, lowest  *)
(* terms); time.time_ns() is modelled in whole seconds.                    *)
(***************************************************************************)
EXTENDS Integers, Sequences, FiniteSets, TLC

(***************************************************************************)
(* Exact rational arithmetic.                                              *)
(***************************************************************************)
Abs(n) == IF n < 0 THEN -n ELSE n

RECURSIVE GCD(_, _)
GCD(a, b) == IF b = 0 THEN a ELSE GCD(b, a % b)

Norm(n, d) ==
    LET g == GCD(Abs(n), Abs(d))
        s == IF d < 0 THEN -1 ELSE 1
    IN  IF n = 0 THEN <<0, 1>> ELSE <<(s * n) \div g, (s * d) \div g>>

R(n) == <<n, 1>>
Frac(n, d) == Norm(n, d)
Zero == <<0, 1>>
One == <<1, 1>>
RAdd(x, y) == Norm(x[1] * y[2] + y[1] * x[2], x[2] * y[2])
RSub(x, y) == Norm(x[1] * y[2] - y[1] * x[2], x[2] * y[2])
RMul(x, y) == Norm(x[1] * y[1], x[2] * y[2])
RDiv(x, y) == Norm(x[1] * y[2], x[2] * y[1])
RLt(x, y) == x[1] * y[2] < y[1] * x[2]
RLe(x, y) == x[1] * y[2] <= y[1] * x[2]
RMin(x, y) == IF RLt(y, x) THEN y ELSE x
RMax(x, y) == IF RLt(x, y) THEN y ELSE x

(***************************************************************************)
(* Bounds of the model.                                                    *)
(***************************************************************************)
MaxAdvances == 3
MaxNow == 362
MaxTrades == 3
MaxCalls == 5
depth == 2
MaxOps == 2

(***************************************************************************)
(* Program constants.                                                      *)
(***************************************************************************)
tradedCurrencyTransferTime == 1
baseCurrencyTransferTime == 360
orderbookUpdateInterval == 20

Venues == {0, 1}
Other(v) == 1 - v

(***************************************************************************)
(* Orderbook: each side is an OrderedDict price -> quantity, modelled as  *)
(* the sequence of its items in dictionary order.                          *)
(***************************************************************************)
Level(p, q) == [price |-> p, qty |-> q]
EmptyBook == [bids |-> <<>>, asks |-> <<>>]
None == <<"None">>

Best(side) == IF Len(side) = 0 THEN <<None, None>> ELSE <<side[1].price, side[1].qty>>
getHighestBid(book) == Best(book.bids)
getLowestAsk(book) == Best(book.asks)

HasLevel(side, price) == \E i \in 1..Len(side) : side[i].price = price
QtyAt(side, price) ==
    IF HasLevel(side, price)
    THEN (CHOOSE l \in {side[i] : i \in 1..Len(side)} : l.price = price).qty
    ELSE Zero

\* The dictionary with the level at `price` popped.
PopLevel(side, price) == SelectSeq(side, LAMBDA l : l.price # price)

\* Mutant of SetOrPop: the level is kept whatever is left of it.
SetOrPopKeep(side, price, newQuantity) ==
    [i \in 1..Len(side) |->
        IF side[i].price = price THEN Level(price, newQuantity) ELSE side[i]]

\* Mutant of SetOrPop: a level that is updated moves to the end of the
\* dictionary.
SetOrPopMoveToEnd(side, price, newQuantity) ==
    IF RLe(newQuantity, Zero) THEN PopLevel(side, price)
    ELSE Append(PopLevel(side, price), Level(price, newQuantity))

\* The dictionary with the quantity at `price` set to newQuantity: the level
\* is popped when nothing is left, else updated in place.
SetOrPop(side, price, newQuantity) ==
    IF RLe(newQuantity, Zero) THEN PopLevel(side, price)
    ELSE [i \in 1..Len(side) |->
             IF side[i].price = price THEN Level(price, newQuantity) ELSE side[i]]

\* Mutant of NewQuantity: no floor at 0.
NewQuantityNoFloor(old, quantity) == RSub(old, quantity)

\* "newQuantity = max(old - quantity, 0.0)"
NewQuantity(old, quantity) == RMax(RSub(old, quantity), Zero)

\* Mutant of ReduceSide: the level is popped whatever is left of it.
ReduceSidePop(side, price, quantity) == PopLevel(side, price)

\* The dictionary after the quantity at `price` is reduced by `quantity`.
ReduceSide(side, price, quantity) ==
    SetOrPop(side, price, NewQuantity(QtyAt(side, price), quantity))

\* Amount returned by reduceBidQuantity / reduceAskQuantity: "old - newQuantity".
ReducedBy(old, quantity) == RSub(old, NewQuantity(old, quantity))

\* reduceAskQuantity: raises KeyError (err) when the price has no level.
reduceAskQuantity(book, price, quantity) ==
    IF ~HasLevel(book.asks, price)
    THEN [book |-> book, ret |-> Zero, err |-> TRUE]
    ELSE [book |-> [book EXCEPT !.asks = ReduceSide(book.asks, price, quantity)],
          ret |-> ReducedBy(QtyAt(book.asks, price), quantity), err |-> FALSE]

reduceBidQuantity(book, price, quantity) ==
    IF ~HasLevel(book.bids, price)
    THEN [book |-> book, ret |-> Zero, err |-> TRUE]
    ELSE [book |-> [book EXCEPT !.bids = ReduceSide(book.bids, price, quantity)],
          ret |-> ReducedBy(QtyAt(book.bids, price), quantity), err |-> FALSE]

\* liquidate: the loop state is (book, amountSold, baseCurrencyReceived);
\* LiquidateTaken is the loop body after the call of reduceBidQuantity (r).
RECURSIVE LiquidateLoop(_, _, _, _)
\* Mutant of LiquidateTaken: the amount taken is not multiplied by the price.
LiquidateTakenUnpriced(quantity, amountSold, baseCurrencyReceived, price, r) ==
    IF r.ret = Zero
    THEN [book |-> r.book, amount |-> amountSold, received |-> baseCurrencyReceived]
    ELSE LiquidateLoop(r.book, quantity, RAdd(amountSold, r.ret),
                       RAdd(baseCurrencyReceived, r.ret))

LiquidateTaken(quantity, amountSold, baseCurrencyReceived, price, r) ==
    IF r.ret = Zero
    THEN [book |-> r.book, amount |-> amountSold, received |-> baseCurrencyReceived]
    ELSE LiquidateLoop(r.book, quantity, RAdd(amountSold, r.ret),
                       RAdd(baseCurrencyReceived, RMul(r.ret, price)))

\* Mutant of LiquidateLoop: the level taken from is the last of the bids.
LiquidateLoopLast(book, quantity, amountSold, baseCurrencyReceived) ==
    IF ~(RLt(amountSold, quantity) /\ Len(book.bids) > 0)
    THEN [book |-> book, amount |-> amountSold, received |-> baseCurrencyReceived]
    ELSE LiquidateTaken(quantity, amountSold, baseCurrencyReceived,
                        book.bids[Len(book.bids)].price,
                        reduceBidQuantity(book, book.bids[Len(book.bids)].price,
                                          RSub(quantity, amountSold)))

LiquidateLoop(book, quantity, amountSold, baseCurrencyReceived) ==
    IF ~(RLt(amountSold, quantity) /\ Len(book.bids) > 0)
    THEN [book |-> book, amount |-> amountSold, received |-> baseCurrencyReceived]
    ELSE LiquidateTaken(quantity, amountSold, baseCurrencyReceived, book.bids[1].price,
                        reduceBidQuantity(book, book.bids[1].price,
                                          RSub(quantity, amountSold)))

liquidate(book, quantity) == LiquidateLoop(book, quantity, Zero, Zero)

(***************************************************************************)
(* SimulatedWallet: the base-currency amount, the trade fee and the       *)
(* per-currency withdrawal fees.  `balances` (other currencies) is never  *)
(* touched by the trading code and holds nothing.                          *)
(***************************************************************************)
Wallet(amount, fee, wTraded, wBase) ==
    [baseCurrencyAmount |-> amount, binanceFee |-> fee,
     withdrawalFees |-> [traded |-> wTraded, base |-> wBase], balances |-> <<>>]

getBalance(w) == w.baseCurrencyAmount
getTradeFee(w) == w.binanceFee
getWithdrawalFee(w, ticker) == w.withdrawalFees[ticker]

\* withdraw(amount, baseCurrency): the withdrawal fee is charged on top and
\* the balance is clamped at 0.
withdraw(w, amount) ==
    [w EXCEPT !.baseCurrencyAmount =
        RMax(RSub(RSub(w.baseCurrencyAmount, amount), getWithdrawalFee(w, "base")), Zero)]

\* Mutant of deposit: the trade fee is taken off what is deposited.
depositLessFee(w, amount) ==
    [w EXCEPT !.baseCurrencyAmount =
        RAdd(w.baseCurrencyAmount, RMul(amount, RSub(One, w.binanceFee)))]

\* deposit(amount, baseCurrency)
deposit(w, amount) ==
    [w EXCEPT !.baseCurrencyAmount = RAdd(w.baseCurrencyAmount, amount)]

(***************************************************************************)
(* CrossTrade.  `id`, `calls` and `fresh` are bookkeeping of the model:    *)
(* the creation number of the trade, the number of step calls it has had  *)
(* (the for loop of main stops at a trade that has had MaxCalls calls),    *)
(* and whether it was created in the tick of main that is under way.       *)
(***************************************************************************)
NewCrossTrade(id, exchangeBoughtFrom, exchangeSoldTo) ==
    [id |-> id, calls |-> 0, fresh |-> TRUE,
     exchangeBoughtFrom |-> exchangeBoughtFrom, exchangeSoldTo |-> exchangeSoldTo,
     currentStep |-> 0, amountInTradedCurrency |-> Zero,
     amountSold |-> Zero, amountToTransferBack |-> Zero, transferStartTime |-> 0]

\* The result of one step call.
Outcome(t, orderbooks, wallets, ret, err) ==
    [trade |-> t, orderbooks |-> orderbooks, wallets |-> wallets, ret |-> ret, err |-> err]

\* "if balance1 <= 0.0"
NoBalance(balance1) == RLe(balance1, Zero)

\* Mutant of AmountToBuy: the balance does not limit the purchase.
AmountToBuyNoBalance(purchasableAmount, sellableAmount, balance1, purchasablePrice) ==
    RMin(purchasableAmount, sellableAmount)

\* min(purchasableAmount, sellableAmount), then min with balance1 / purchasablePrice
AmountToBuy(purchasableAmount, sellableAmount, balance1, purchasablePrice) ==
    RMin(RMin(purchasableAmount, sellableAmount), RDiv(balance1, purchasablePrice))

\* Mutant of AmountAfterFee: the trade fee is not taken off.
AmountAfterFeeNone(amount, fee) == amount

\* "self.amountInTradedCurrency *= (1.0 - getTradeFee())"
AmountAfterFee(amount, fee) == RMul(amount, RSub(One, fee))

\* "amountInBaseCurrency = self.amountInTradedCurrency * purchasablePrice",
\* computed from the amount after the fee was taken off.
AmountInBaseCurrency(amountAfterFee, purchasablePrice) ==
    RMul(amountAfterFee, purchasablePrice)

\* The purchase: r is what reduceAskQuantity gave, afterFee the amount held.
Purchase(t, orderbooks, wallets, now, purchasablePrice, r, afterFee) ==
    Outcome([t EXCEPT !.amountInTradedCurrency = afterFee,
                      !.transferStartTime = now,
                      !.currentStep = 1],
            [orderbooks EXCEPT ![t.exchangeBoughtFrom] = r.book],
            [wallets EXCEPT ![t.exchangeBoughtFrom] =
                withdraw(wallets[t.exchangeBoughtFrom],
                         AmountInBaseCurrency(afterFee, purchasablePrice))],
            FALSE, r.err)

\* "if self.amountInTradedCurrency <= 0.0: return True", else the purchase.
BuyAmount(t, orderbooks, wallets, now, purchasablePrice, amount) ==
    IF RLe(amount, Zero)
    THEN Outcome([t EXCEPT !.amountInTradedCurrency = amount], orderbooks, wallets,
                 TRUE, FALSE)
    ELSE Purchase([t EXCEPT !.amountInTradedCurrency = amount], orderbooks, wallets, now,
                  purchasablePrice,
                  reduceAskQuantity(orderbooks[t.exchangeBoughtFrom], purchasablePrice,
                                    amount),
                  AmountAfterFee(amount, getTradeFee(wallets[t.exchangeBoughtFrom])))

\* The best ask at the source and the best bid at the destination are read;
\* min() and "/" raise TypeError on None.
BuyQuoted(t, orderbooks, wallets, now, ask, bid) ==
    IF ask[1] = None \/ bid[1] = None
    THEN Outcome(t, orderbooks, wallets, FALSE, TRUE)
    ELSE BuyAmount(t, orderbooks, wallets, now, ask[1],
                   AmountToBuy(ask[2], bid[2],
                               getBalance(wallets[t.exchangeBoughtFrom]), ask[1]))

\* Mutant of StepBuy: the abort on an empty balance returns False.
StepBuyAbortFalse(t, orderbooks, wallets, now) ==
    IF NoBalance(getBalance(wallets[t.exchangeBoughtFrom]))
    THEN Outcome(t, orderbooks, wallets, FALSE, FALSE)
    ELSE BuyQuoted(t, orderbooks, wallets, now,
                   getLowestAsk(orderbooks[t.exchangeBoughtFrom]),
                   getHighestBid(orderbooks[t.exchangeSoldTo]))

\* currentStep == 0: buy on the exchange to buy from.
StepBuy(t, orderbooks, wallets, now) ==
    IF NoBalance(getBalance(wallets[t.exchangeBoughtFrom]))
    THEN Outcome(t, orderbooks, wallets, TRUE, FALSE)
    ELSE BuyQuoted(t, orderbooks, wallets, now,
                   getLowestAsk(orderbooks[t.exchangeBoughtFrom]),
                   getHighestBid(orderbooks[t.exchangeSoldTo]))

\* Mutant of TransferOutPending: "<=" for "<".
TransferOutPendingLe(t, now) == now <= t.transferStartTime + tradedCurrencyTransferTime

\* Mutant of TransferOutPending: the transfer time of the base currency.
TransferOutPendingBase(t, now) == now < t.transferStartTime + baseCurrencyTransferTime

\* "if time.time_ns() < self.transferStartTime + self.tradedCurrencyTransferTime"
\* of currentStep == 1
TransferOutPending(t, now) == now < t.transferStartTime + tradedCurrencyTransferTime

\* Mutant of StepTransferOut: the trade goes on to state 3.
StepTransferOutSkip(t, orderbooks, wallets, now) ==
    IF TransferOutPending(t, now)
    THEN Outcome(t, orderbooks, wallets, FALSE, FALSE)
    ELSE Outcome([t EXCEPT !.currentStep = 3], orderbooks, wallets, FALSE, FALSE)

\* currentStep == 1: the traded currency is being transferred.
StepTransferOut(t, orderbooks, wallets, now) ==
    IF TransferOutPending(t, now)
    THEN Outcome(t, orderbooks, wallets, FALSE, FALSE)
    ELSE Outcome([t EXCEPT !.currentStep = 2], orderbooks, wallets, FALSE, FALSE)

\* The quantity handed to liquidate in currentStep == 2.
LiquidateTarget(t) == t.amountInTradedCurrency

\* Mutant of TransferBackAmount: the withdrawal fee is not taken off.
TransferBackAmountNoFee(baseCurrencyReceived, w) ==
    RMul(baseCurrencyReceived, RSub(One, getTradeFee(w)))

\* "baseCurrencyReceived * (1.0 - getTradeFee()) - getWithdrawalFee(baseCurrency)"
TransferBackAmount(baseCurrencyReceived, w) ==
    RSub(RMul(baseCurrencyReceived, RSub(One, getTradeFee(w))), getWithdrawalFee(w, "base"))

\* Mutant of AfterSale: the trade goes on to state 3 whatever was sold.
AfterSaleAlways(t, orderbooks, wallets, now) ==
    Outcome([t EXCEPT !.currentStep = 3, !.transferStartTime = now],
            orderbooks, wallets, FALSE, FALSE)

\* Mutant of AfterSale: a trade that has not sold all it holds is given up.
AfterSaleGivenUp(t, orderbooks, wallets, now) ==
    IF RLt(t.amountSold, t.amountInTradedCurrency)
    THEN Outcome(t, orderbooks, wallets, TRUE, FALSE)
    ELSE Outcome([t EXCEPT !.currentStep = 3, !.transferStartTime = now],
                 orderbooks, wallets, FALSE, FALSE)

\* "if self.amountSold < self.amountInTradedCurrency: return False", else on
\* to state 3; t is the trade with its sums updated.
AfterSale(t, orderbooks, wallets, now) ==
    IF RLt(t.amountSold, t.amountInTradedCurrency)
    THEN Outcome(t, orderbooks, wallets, FALSE, FALSE)
    ELSE Outcome([t EXCEPT !.currentStep = 3, !.transferStartTime = now],
                 orderbooks, wallets, FALSE, FALSE)

\* The sums are updated with what liquidate gave (l).
Sold(t, orderbooks, wallets, now, l) ==
    AfterSale([t EXCEPT !.amountSold = RAdd(t.amountSold, l.amount),
                        !.amountToTransferBack =
                            RAdd(t.amountToTransferBack,
                                 TransferBackAmount(l.received, wallets[t.exchangeSoldTo]))],
              [orderbooks EXCEPT ![t.exchangeSoldTo] = l.book], wallets, now)

\* Mutant of StepLiquidate: the destination wallet pays its withdrawal fee at
\* the sale.
StepLiquidateCharging(t, orderbooks, wallets, now) ==
    Sold(t, orderbooks,
         [wallets EXCEPT ![t.exchangeSoldTo] = withdraw(wallets[t.exchangeSoldTo], Zero)],
         now, liquidate(orderbooks[t.exchangeSoldTo], LiquidateTarget(t)))

\* currentStep == 2: sell on the exchange to sell to.
StepLiquidate(t, orderbooks, wallets, now) ==
    Sold(t, orderbooks, wallets, now,
         liquidate(orderbooks[t.exchangeSoldTo], LiquidateTarget(t)))

\* "if time.time_ns() < self.transferStartTime + self.tradedCurrencyTransferTime"
\* of currentStep == 3
TransferBackPending(t, now) == now < t.transferStartTime + tradedCurrencyTransferTime

\* Mutant of StepTransferBack: the money is deposited at the exchange sold to.
StepTransferBackToDest(t, orderbooks, wallets, now) ==
    IF TransferBackPending(t, now)
    THEN Outcome(t, orderbooks, wallets, FALSE, FALSE)
    ELSE Outcome(t, orderbooks,
                 [wallets EXCEPT ![t.exchangeSoldTo] =
                     deposit(wallets[t.exchangeSoldTo], t.amountToTransferBack)],
                 TRUE, FALSE)

\* currentStep == 3: the money is transferred back to the exchange it came from.
StepTransferBack(t, orderbooks, wallets, now) ==
    IF TransferBackPending(t, now)
    THEN Outcome(t, orderbooks, wallets, FALSE, FALSE)
    ELSE Outcome(t, orderbooks,
                 [wallets EXCEPT ![t.exchangeBoughtFrom] =
                     deposit(wallets[t.exchangeBoughtFrom], t.amountToTransferBack)],
                 TRUE, FALSE)

\* The call is counted.
Counted(o) == [o EXCEPT !.trade.calls = o.trade.calls + 1]

\* CrossTrade.step
step(t, orderbooks, wallets, now) ==
    Counted(CASE t.currentStep = 0 -> StepBuy(t, orderbooks, wallets, now)
              [] t.currentStep = 1 -> StepTransferOut(t, orderbooks, wallets, now)
              [] t.currentStep = 2 -> StepLiquidate(t, orderbooks, wallets, now)
              [] t.currentStep = 3 -> StepTransferBack(t, orderbooks, wallets, now)
              [] OTHER -> Outcome(t, orderbooks, wallets, FALSE, FALSE))

(***************************************************************************)
(* Venue order books: update() fetches a snapshot from the exchange.       *)
(* Venue 0 is the BinanceOrderbook, venue 1 the KuCoinOrderbook, as in     *)
(* simulate.py.                                                            *)
(***************************************************************************)
Take(side, n) == SubSeq(side, 1, IF Len(side) < n THEN Len(side) ELSE n)

\* dict[price] = quantity on an OrderedDict: an existing key keeps its place,
\* a new key goes to the end.
SetItem(side, level) ==
    IF HasLevel(side, level.price)
    THEN [i \in 1..Len(side) |-> IF side[i].price = level.price THEN level ELSE side[i]]
    ELSE Append(side, level)

RECURSIVE SetItems(_, _)
SetItems(side, levels) ==
    IF Len(levels) = 0 THEN side ELSE SetItems(SetItem(side, Head(levels)), Tail(levels))

\* BinanceOrderbook.update: both sides are emptied, then filled from the
\* snapshot (the exchange is asked for `depth` levels).
BinanceUpdate(book, fetched) ==
    [bids |-> SetItems(<<>>, Take(fetched.bids, depth)),
     asks |-> SetItems(<<>>, Take(fetched.asks, depth))]

\* KuCoinOrderbook.update: the first `depth` levels of the snapshot are
\* written into the existing dictionaries.
KuCoinUpdate(book, fetched) ==
    [bids |-> SetItems(book.bids, Take(fetched.bids, depth)),
     asks |-> SetItems(book.asks, Take(fetched.asks, depth))]

(***************************************************************************)
(* Inputs: what the exchanges answer, and the wallets simulate.py builds.  *)
(***************************************************************************)
Cheap == [bids |-> <<Level(R(1), R(1))>>, asks |-> <<Level(R(2), R(2)), Level(R(3), R(2))>>]
Dear  == [bids |-> <<Level(R(5), R(3))>>, asks |-> <<Level(R(6), R(1))>>]
Mid   == [bids |-> <<Level(R(2), R(1))>>, asks |-> <<Level(R(3), R(1))>>]

Feed == [v \in Venues |-> IF v = 0 THEN {Cheap, Dear, EmptyBook} ELSE {Dear, Mid, Cheap}]

\* (trade fee, withdrawal fee of the traded currency, of the base currency)
FeeSchedules == {<<Zero, Zero, Zero>>, <<Frac(1, 10), One, One>>}
StartingAmounts == {Zero, R(3), R(100)}

(***************************************************************************)
(* State.                                                                  *)
(***************************************************************************)
VARIABLES
    now,                      \* time.time_ns(), in seconds
    orderbooks,               \* [binanceOrderbook, kuCoinOrderbook]
    wallets,                  \* [binanceWallet, kuCoinWallet]
    currentTrades,            \* simulate.main: the pending trades
    lastOrderbookUpdateTime,  \* simulate.main
    pc,                       \* where the tick loop of simulate.main stands
    trades,                   \* Trader.step: the trades spawned by this call
    i,                        \* simulate.main: index of the for loop
    toPop,                    \* simulate.main: indices of the finished trades
    nextId,                   \* number of the next trade to be created
    last                      \* the last call made: its arguments and result

vars == <<now, orderbooks, wallets, currentTrades, lastOrderbookUpdateTime,
          pc, trades, i, toPop, nextId, last>>

NoTrade == NewCrossTrade(0, 0, 0)

\* A record of the call just made: the state it was made in and what it gave.
Call(op, pre, o, spawned) ==
    [op |-> op, pre |-> pre, post |-> o.trade, ret |-> o.ret, err |-> o.err,
     spawned |-> spawned, orderbooks |-> orderbooks, wallets |-> wallets, now |-> now]

NoCall(op) == Call(op, NoTrade, Outcome(NoTrade, orderbooks, wallets, FALSE, FALSE), FALSE)

\* time.time_ns() is far beyond lastOrderbookUpdateTime = 0 when main starts:
\* with the model's clock starting at 0 that is one interval in the past.
Init ==
    /\ now = 0
    /\ orderbooks = [v \in Venues |-> EmptyBook]
    /\ \E amount \in StartingAmounts : \E f0 \in FeeSchedules, f1 \in FeeSchedules :
          wallets = [v \in Venues |->
                        IF v = 0 THEN Wallet(amount, f0[1], f0[2], f0[3])
                        ELSE Wallet(amount, f1[1], f1[2], f1[3])]
    /\ currentTrades = <<>>
    /\ lastOrderbookUpdateTime = 0 - orderbookUpdateInterval
    /\ pc = "tick"
    /\ trades = <<>>
    /\ i = 1
    /\ toPop = <<>>
    /\ nextId = 1
    /\ last = [op |-> "init", pre |-> NoTrade, post |-> NoTrade, ret |-> FALSE,
               err |-> FALSE, spawned |-> FALSE, orderbooks |-> orderbooks,
               wallets |-> wallets, now |-> 0]

(***************************************************************************)
(* The clock: time passes between any two calls.                           *)
(***************************************************************************)
\* The clock moves by one of two steps, at most MaxAdvances times in all and
\* not beyond MaxNow.
ClockSteps == {tradedCurrencyTransferTime, baseCurrencyTransferTime}
Advances(time) == (time \div baseCurrencyTransferTime) + (time % baseCurrencyTransferTime)

Advance ==
    /\ pc # "crashed"
    /\ Advances(now) < MaxAdvances
    /\ \E d \in ClockSteps : now + d <= MaxNow /\ now' = now + d
    /\ last' = [NoCall("clock") EXCEPT !.now = now']
    /\ UNCHANGED <<orderbooks, wallets, currentTrades, lastOrderbookUpdateTime,
                   pc, trades, i, toPop, nextId>>

(***************************************************************************)
(* simulate.main: the head of the while loop, up to the call of           *)
(* trader.step.                                                            *)
(***************************************************************************)
UpdateDue == now >= lastOrderbookUpdateTime + orderbookUpdateInterval

\* feed[v]: the snapshots the exchange of venue v may give.
TickWith(feed) ==
    /\ pc = "tick"
    /\ IF UpdateDue
       THEN /\ \E f0 \in feed[0], f1 \in feed[1] :
                  orderbooks' = [v \in Venues |->
                                    IF v = 0 THEN BinanceUpdate(orderbooks[0], f0)
                                    ELSE KuCoinUpdate(orderbooks[1], f1)]
            /\ lastOrderbookUpdateTime' = now
       ELSE UNCHANGED <<orderbooks, lastOrderbookUpdateTime>>
    /\ pc' = "loopA"
    /\ trades' = <<>>
    /\ last' = NoCall("tick")
    /\ UNCHANGED <<now, wallets, currentTrades, i, toPop, nextId>>

Tick == TickWith(Feed)

(***************************************************************************)
(* Trader.step: one action per iteration of each of its two while loops.   *)
(***************************************************************************)
\* Mutant of CrossesAB: "<=" for "<".
CrossesABLe(lowestAsk, highestBid, w) ==
    LET quantity == RMin(lowestAsk[2], highestBid[2])
        notionalTraded0 ==
            RAdd(RAdd(RMul(RMul(lowestAsk[1], RAdd(One, getTradeFee(w[0]))), quantity),
                      RMul(lowestAsk[1], getWithdrawalFee(w[0], "traded"))),
                 getWithdrawalFee(w[0], "base"))
        notionalTraded1 == RMul(RMul(highestBid[1], RSub(One, getTradeFee(w[1]))), quantity)
    IN  RLe(notionalTraded0, notionalTraded1)

\* First loop: "notionalTraded0 < notionalTraded1", buying at venue 0.
CrossesAB(lowestAsk, highestBid, w) ==
    LET quantity == RMin(lowestAsk[2], highestBid[2])
        notionalTraded0 ==
            RAdd(RAdd(RMul(RMul(lowestAsk[1], RAdd(One, getTradeFee(w[0]))), quantity),
                      RMul(lowestAsk[1], getWithdrawalFee(w[0], "traded"))),
                 getWithdrawalFee(w[0], "base"))
        notionalTraded1 == RMul(RMul(highestBid[1], RSub(One, getTradeFee(w[1]))), quantity)
    IN  RLt(notionalTraded0, notionalTraded1)

\* Mutant of CrossesBA: the buying venue pays no withdrawal fees.
CrossesBANoWithdrawal(highestBid, lowestAsk, w) ==
    LET quantity == RMin(lowestAsk[2], highestBid[2])
        notionalTraded0 == RMul(RMul(highestBid[1], RSub(One, getTradeFee(w[0]))), quantity)
        notionalTraded1 == RMul(RMul(lowestAsk[1], RAdd(One, getTradeFee(w[1]))), quantity)
    IN  RLt(notionalTraded1, notionalTraded0)

\* Second loop: "notionalTraded0 > notionalTraded1", buying at venue 1.
CrossesBA(highestBid, lowestAsk, w) ==
    LET quantity == RMin(lowestAsk[2], highestBid[2])
        notionalTraded0 == RMul(RMul(highestBid[1], RSub(One, getTradeFee(w[0]))), quantity)
        notionalTraded1 ==
            RAdd(RAdd(RMul(RMul(lowestAsk[1], RAdd(One, getTradeFee(w[1]))), quantity),
                      RMul(lowestAsk[1], getWithdrawalFee(w[1], "traded"))),
                 getWithdrawalFee(w[1], "base"))
    IN  RLt(notionalTraded1, notionalTraded0)

\* The trade is created, stepped once (o) and appended to `trades`.  An
\* exception raised by the step ends the program.
Spawned(op, trade, o) ==
    /\ nextId <= MaxTrades
    /\ orderbooks' = o.orderbooks
    /\ wallets' = o.wallets
    /\ trades' = Append(trades, o.trade)
    /\ nextId' = nextId + 1
    /\ pc' = IF o.err THEN "crashed" ELSE pc
    /\ last' = Call(op, trade, o, TRUE)
    /\ UNCHANGED <<now, currentTrades, lastOrderbookUpdateTime, i, toPop>>

Spawn(op, src, dst) ==
    Spawned(op, NewCrossTrade(nextId, src, dst),
            step(NewCrossTrade(nextId, src, dst), orderbooks, wallets, now))

\* "break"
Break(op, next) ==
    /\ pc' = next
    /\ last' = NoCall(op)
    /\ UNCHANGED <<now, orderbooks, wallets, lastOrderbookUpdateTime, nextId>>

\* Mutant of IterationA: a missing quote does not stop the loop.
IterationANoStop(lowestAsk, highestBid) ==
    IF lowestAsk[1] = None \/ highestBid[1] = None
    THEN Spawn("loopA", 0, 1)
    ELSE IF CrossesAB(lowestAsk, highestBid, wallets)
    THEN Spawn("loopA", 0, 1)
    ELSE Break("loopA", "loopB") /\ UNCHANGED <<trades, currentTrades, i, toPop>>

\* An iteration of the first loop (buy at venue 0, sell at venue 1), with
\* the quotes it read.
IterationA(lowestAsk, highestBid) ==
    IF lowestAsk[1] = None \/ highestBid[1] = None
    THEN Break("loopA", "loopB") /\ UNCHANGED <<trades, currentTrades, i, toPop>>
    ELSE IF CrossesAB(lowestAsk, highestBid, wallets)
    THEN Spawn("loopA", 0, 1)
    ELSE Break("loopA", "loopB") /\ UNCHANGED <<trades, currentTrades, i, toPop>>

LoopA ==
    /\ pc = "loopA"
    /\ IterationA(getLowestAsk(orderbooks[0]), getHighestBid(orderbooks[1]))

\* Leaving the second loop returns `trades`, which main appends to
\* currentTrades before it starts its for loop.
Return ==
    /\ Break("loopB", "for")
    /\ currentTrades' = currentTrades \o trades
    /\ trades' = <<>>
    /\ i' = 1
    /\ toPop' = <<>>

\* Mutant of IterationB: the second loop stops at once when the first loop
\* has spawned a trade.
IterationBAfterA(highestBid, lowestAsk) ==
    IF highestBid[1] = None \/ lowestAsk[1] = None
    THEN Return
    ELSE IF CrossesBA(highestBid, lowestAsk, wallets)
            /\ ~(Len(trades) > 0 /\ trades[1].exchangeBoughtFrom = 0)
    THEN Spawn("loopB", 1, 0)
    ELSE Return

\* Mutant of IterationB: a missing quote does not stop the loop.
IterationBNoStop(highestBid, lowestAsk) ==
    IF highestBid[1] = None \/ lowestAsk[1] = None
    THEN Spawn("loopB", 1, 0)
    ELSE IF CrossesBA(highestBid, lowestAsk, wallets)
    THEN Spawn("loopB", 1, 0)
    ELSE Return

\* An iteration of the second loop (buy at venue 1, sell at venue 0), with
\* the quotes it read.
IterationB(highestBid, lowestAsk) ==
    IF highestBid[1] = None \/ lowestAsk[1] = None
    THEN Return
    ELSE IF CrossesBA(highestBid, lowestAsk, wallets)
    THEN Spawn("loopB", 1, 0)
    ELSE Return

LoopB ==
    /\ pc = "loopB"
    /\ IterationB(getHighestBid(orderbooks[0]), getLowestAsk(orderbooks[1]))

(***************************************************************************)
(* simulate.main: the for loop over currentTrades, then the pops.          *)
(***************************************************************************)
\* One iteration: o is what the step call gave.
Stepped(o) ==
    /\ orderbooks' = o.orderbooks
    /\ wallets' = o.wallets
    /\ currentTrades' = [currentTrades EXCEPT ![i] = o.trade]
    /\ toPop' = IF o.ret THEN Append(toPop, i) ELSE toPop
    /\ i' = i + 1
    /\ pc' = IF o.err THEN "crashed" ELSE pc
    /\ last' = Call("for", currentTrades[i], o, FALSE)
    /\ UNCHANGED <<now, lastOrderbookUpdateTime, trades, nextId>>

ForStep ==
    /\ pc = "for"
    /\ i <= Len(currentTrades)
    /\ currentTrades[i].calls < MaxCalls
    /\ Stepped(step(currentTrades[i], orderbooks, wallets, now))

\* currentTrades.pop(toPop[k] - k) for k = 0, 1, ...: here for k = 1, 2, ...
\* on a list indexed from 1.
PopAt(list, n) == SubSeq(list, 1, n - 1) \o SubSeq(list, n + 1, Len(list))

RECURSIVE PopAll(_, _, _)
\* Mutant of PopAll: only the first of the finished trades is popped.
PopAllFirst(list, indices, k) ==
    IF Len(indices) = 0 THEN list ELSE PopAt(list, indices[1])

PopAll(list, indices, k) ==
    IF k > Len(indices) THEN list
    ELSE PopAll(PopAt(list, indices[k] - (k - 1)), indices, k + 1)

\* The tick is over: the trades left are no longer fresh.
Settled(list) == [k \in 1..Len(list) |-> [list[k] EXCEPT !.fresh = FALSE]]

\* The record of the pops: the list before them and the indices popped.
Popped == NoCall("pop") @@ [before |-> currentTrades, popped |-> toPop]

Pop ==
    /\ pc = "for"
    /\ i > Len(currentTrades)
    /\ currentTrades' = Settled(PopAll(currentTrades, toPop, 1))
    /\ toPop' = <<>>
    /\ pc' = "tick"
    /\ last' = Popped
    /\ UNCHANGED <<now, orderbooks, wallets, lastOrderbookUpdateTime, trades, i, nextId>>

Next == Advance \/ Tick \/ LoopA \/ LoopB \/ ForStep \/ Pop

Spec == Init /\ [][Next]_vars

(***************************************************************************)
(* A caller that goes on calling step on a trade whose step has returned   *)
(* true: CrossTrade.step is public and takes any trade, whatever it        *)
(* returned before.  main itself removes such a trade after its for loop.  *)
(***************************************************************************)
\* The call on the trade at index j of currentTrades: o is what it gave.
SteppedAgain(j, o) ==
    /\ orderbooks' = o.orderbooks
    /\ wallets' = o.wallets
    /\ currentTrades' = [currentTrades EXCEPT ![j] = o.trade]
    /\ pc' = IF o.err THEN "crashed" ELSE pc
    /\ last' = Call("again", currentTrades[j], o, FALSE)
    /\ UNCHANGED <<now, lastOrderbookUpdateTime, trades, i, toPop, nextId>>

StepAgain ==
    /\ pc = "for"
    /\ \E k \in 1..Len(toPop) :
          /\ currentTrades[toPop[k]].calls < MaxCalls
          /\ SteppedAgain(toPop[k], step(currentTrades[toPop[k]], orderbooks, wallets, now))

NextAgain == Next \/ StepAgain

SpecAgain == Init /\ [][NextAgain]_vars

(***************************************************************************)
(* The tick loop running for ever.  The program compares the clock only    *)
(* with a time it stored plus an interval, the longest being               *)
(* orderbookUpdateInterval, so the clock is kept within Horizon: when it   *)
(* would pass Horizon, the clock and every stored time are moved back by   *)
(* the same amount, a stored time never below 0 (it is then at least       *)
(* Horizon in the past, which is all a comparison can tell).  `calls` is   *)
(* not kept, so a trade can be stepped any number of times.  The wallets   *)
(* charge no fees; venue 0 shows bids above the asks of venue 1, or        *)
(* nothing.                                                                *)
(***************************************************************************)
Horizon == orderbookUpdateInterval
StartingAmountLive == R(100)
FeedLive == [v \in Venues |-> IF v = 0 THEN {Dear, EmptyBook} ELSE {Cheap}]

\* What the clock passes Horizon by when it moves by d.
Shift(d) == IF now + d > Horizon THEN now + d - Horizon ELSE 0
Earlier(time, shift) == IF time < shift THEN 0 ELSE time - shift
Rebased(list, shift) ==
    [k \in 1..Len(list) |->
        [list[k] EXCEPT !.transferStartTime = Earlier(list[k].transferStartTime, shift)]]

InitLive ==
    /\ now = Horizon
    /\ orderbooks = [v \in Venues |-> EmptyBook]
    /\ wallets = [v \in Venues |-> Wallet(StartingAmountLive, Zero, Zero, Zero)]
    /\ currentTrades = <<>>
    /\ lastOrderbookUpdateTime = Horizon - orderbookUpdateInterval
    /\ pc = "tick"
    /\ trades = <<>>
    /\ i = 1
    /\ toPop = <<>>
    /\ nextId = 1
    /\ last = [op |-> "init", pre |-> NoTrade, post |-> NoTrade, ret |-> FALSE,
               err |-> FALSE, spawned |-> FALSE, orderbooks |-> orderbooks,
               wallets |-> wallets, now |-> Horizon]

\* Time passes between two ticks: tradedCurrencyTransferTime after an
\* update, or long enough for the next update to be due.
AdvanceLive ==
    /\ pc = "tick"
    /\ \E d \in ClockSteps :
          /\ d = tradedCurrencyTransferTime => lastOrderbookUpdateTime = now
          /\ now' = now + d - Shift(d)
          /\ lastOrderbookUpdateTime' = Earlier(lastOrderbookUpdateTime, Shift(d))
          /\ currentTrades' = Rebased(currentTrades, Shift(d))
    /\ last' = [NoCall("clock") EXCEPT !.now = now']
    /\ UNCHANGED <<orderbooks, wallets, pc, trades, i, toPop, nextId>>

TickLive == TickWith(FeedLive)

Uncounted(o) == [o EXCEPT !.trade.calls = 0]

ForStepLive ==
    /\ pc = "for"
    /\ i <= Len(currentTrades)
    /\ Stepped(Uncounted(step(currentTrades[i], orderbooks, wallets, now)))

NextLive == AdvanceLive \/ TickLive \/ LoopA \/ LoopB \/ ForStepLive \/ Pop

\* main is one thread: it starts the next tick when one is over, and it
\* sleeps between two ticks, so time passes again and again.
SpecLive ==
    /\ InitLive /\ [][NextLive]_vars
    /\ WF_vars(TickLive) /\ WF_vars(Pop) /\ SF_vars(AdvanceLive)

(***************************************************************************)
(* The Orderbook on its own: a book as update() may have filled it (the    *)
(* exchange's snapshot is taken as it comes, a quantity of 0 included),    *)
(* and calls of liquidate, reduceBidQuantity and reduceAskQuantity on it.  *)
(* The book is orderbooks[0]; i counts the calls, at most MaxOps of them.  *)
(***************************************************************************)
BookPrices == {R(1), R(2)}
BookQuantities == {Zero, One, R(2)}
BookLevels == {Level(p, q) : p \in BookPrices, q \in BookQuantities}
\* The dictionaries of at most two levels: a price is a key, so it occurs once.
BookSides ==
    {<<>>} \cup {<<l>> : l \in BookLevels}
           \cup {<<l, m>> : <<l, m>> \in {x \in BookLevels \X BookLevels : x[1].price # x[2].price}}
AskSides == BookSides
\* The prices and quantities the calls are made with.
CallPrices == {R(1), R(2), R(3)}
CallQuantities == {R(0 - 1), Zero, Frac(1, 2), One, R(2), R(3)}

\* A record of the call just made on the book: the book before it, its
\* arguments, and what it returned.
BookCall(op, price, quantity, amount, received, err) ==
    [op |-> op, orderbooks |-> orderbooks, price |-> price, quantity |-> quantity,
     amount |-> amount, received |-> received, err |-> err]

InitBook ==
    /\ now = 0
    /\ \E bids \in BookSides, asks \in AskSides :
          orderbooks = [v \in Venues |->
                           IF v = 0 THEN [bids |-> bids, asks |-> asks] ELSE EmptyBook]
    /\ wallets = [v \in Venues |-> Wallet(Zero, Zero, Zero, Zero)]
    /\ currentTrades = <<>>
    /\ lastOrderbookUpdateTime = 0
    /\ pc = "book"
    /\ trades = <<>>
    /\ i = 1
    /\ toPop = <<>>
    /\ nextId = 1
    /\ last = BookCall("init", Zero, Zero, Zero, Zero, FALSE)

\* The call is made: the book it left, and the record of it.  A KeyError
\* ends the program.
BookCalled(book, call) ==
    /\ orderbooks' = [orderbooks EXCEPT ![0] = book]
    /\ last' = call
    /\ i' = i + 1
    /\ pc' = IF call.err THEN "crashed" ELSE pc
    /\ UNCHANGED <<now, wallets, currentTrades, lastOrderbookUpdateTime, trades, toPop,
                   nextId>>

Liquidated(quantity, l) ==
    BookCalled(l.book, BookCall("liquidate", Zero, quantity, l.amount, l.received, FALSE))

Liquidate ==
    /\ pc = "book" /\ i <= MaxOps
    /\ \E quantity \in CallQuantities :
          Liquidated(quantity, liquidate(orderbooks[0], quantity))

Reduced(op, price, quantity, r) ==
    BookCalled(r.book, BookCall(op, price, quantity, r.ret, Zero, r.err))

ReduceBid ==
    /\ pc = "book" /\ i <= MaxOps
    /\ \E price \in CallPrices, quantity \in CallQuantities :
          Reduced("reduceBid", price, quantity,
                  reduceBidQuantity(orderbooks[0], price, quantity))

ReduceAsk ==
    /\ pc = "book" /\ i <= MaxOps
    /\ \E price \in CallPrices, quantity \in CallQuantities :
          Reduced("reduceAsk", price, quantity,
                  reduceAskQuantity(orderbooks[0], price, quantity))

NextBook == Liquidate \/ ReduceBid \/ ReduceAsk

SpecBook == InitBook /\ [][NextBook]_vars

(***************************************************************************)
(* Trader.step on its own: one call, made on books and wallets as the      *)
(* program may hold them.  The book of venue 1 is merged from successive   *)
(* snapshots and so may hold a bid above its asks.                         *)
(***************************************************************************)
Between == [bids |-> <<Level(R(3), R(1))>>, asks |-> <<Level(R(4), R(1))>>]
Stale == [bids |-> <<Level(R(5), R(3))>>, asks |-> <<Level(R(2), R(2)), Level(R(3), R(2))>>]

TraderBooks == [v \in Venues |-> IF v = 0 THEN {EmptyBook, Cheap, Dear, Between}
                                 ELSE {EmptyBook, Dear, Mid, Stale}]

InitTrader ==
    /\ now = 0
    /\ \E b0 \in TraderBooks[0], b1 \in TraderBooks[1] :
          orderbooks = [v \in Venues |-> IF v = 0 THEN b0 ELSE b1]
    /\ \E amount \in StartingAmounts : \E f0 \in FeeSchedules, f1 \in FeeSchedules :
          wallets = [v \in Venues |->
                        IF v = 0 THEN Wallet(amount, f0[1], f0[2], f0[3])
                        ELSE Wallet(amount, f1[1], f1[2], f1[3])]
    /\ currentTrades = <<>>
    /\ lastOrderbookUpdateTime = 0
    /\ pc = "loopA"
    /\ trades = <<>>
    /\ i = 1
    /\ toPop = <<>>
    /\ nextId = 1
    /\ last = [op |-> "init", pre |-> NoTrade, post |-> NoTrade, ret |-> FALSE,
               err |-> FALSE, spawned |-> FALSE, orderbooks |-> orderbooks,
               wallets |-> wallets, now |-> 0]

NextTrader == LoopA \/ LoopB

SpecTrader == InitTrader /\ [][NextTrader]_vars

(***************************************************************************)
(* Properties.  `last` holds the call just made: the trade before (pre)    *)
(* and after (post), the value returned (ret), and the books, wallets and  *)
(* time the call was made with; the variables hold what it left.           *)
(***************************************************************************)
\* The last action was a call of CrossTrade.step.
IsStep == last.op = "for" \/ last.spawned
Src == last.pre.exchangeBoughtFrom
Dst == last.pre.exchangeSoldTo
\* What the call read at its start.
BalanceRead == getBalance(last.wallets[Src])
AskRead == getLowestAsk(last.orderbooks[Src])
BidRead == getHighestBid(last.orderbooks[Dst])
\* The call was a state-0 step that bought.
Bought == IsStep /\ last.pre.currentStep = 0 /\ last.post.currentStep = 1
\* Quantity the call took off the source ask level it read.
Removed == RSub(AskRead[2], QtyAt(orderbooks[Src].asks, AskRead[1]))
\* The trade as the call left it, the call count aside.
SameTrade == last.post = [last.pre EXCEPT !.calls = last.pre.calls + 1]
\* The state index after the call, DONE being 4.
IndexAfter == IF last.ret THEN 4 ELSE last.post.currentStep

\* C1 (as stated): the state index never decreases and a step call advances
\* it by at most one state.
C1_Original ==
    IsStep => /\ IndexAfter >= last.pre.currentStep
              /\ IndexAfter <= last.pre.currentStep + 1

\* C1 (amended): the state index never decreases and a step call advances
\* it by at most one state, except that the abort of state 0 goes from BUY
\* straight to DONE.
C1_Amended ==
    IsStep => /\ last.post.currentStep >= last.pre.currentStep
              /\ IndexAfter >= last.pre.currentStep
              /\ \/ IndexAfter <= last.pre.currentStep + 1
                 \/ last.pre.currentStep = 0 /\ last.ret /\ last.post.currentStep = 0

C1_Witness ==
    /\ IsStep /\ last.pre.currentStep = 3 /\ last.ret
    /\ last.pre.calls = 3

\* The crossing test as the specification words it: what buying q at the
\* best ask costs at the source venue, what selling q at the best bid brings
\* at the destination venue.
SpecCost(ask, bid, wSrc) ==
    RAdd(RAdd(RMul(RMul(ask[1], RAdd(One, wSrc.binanceFee)), RMin(ask[2], bid[2])),
              RMul(ask[1], wSrc.withdrawalFees.traded)),
         wSrc.withdrawalFees.base)
SpecProceeds(ask, bid, wDst) ==
    RMul(RMul(bid[1], RSub(One, wDst.binanceFee)), RMin(ask[2], bid[2]))

\* C2: in an iteration of the A->B loop with a best ask at venue 0 and a
\* best bid at venue 1, a CrossTrade(0, 1) is spawned and stepped once iff
\* cost < proceeds; otherwise the loop stops and nothing is mutated.
C2_SpawnIffCrossing ==
    LET ask == getLowestAsk(last.orderbooks[0])
        bid == getHighestBid(last.orderbooks[1])
        crossing == RLt(SpecCost(ask, bid, last.wallets[0]),
                        SpecProceeds(ask, bid, last.wallets[1]))
    IN  (last.op = "loopA" /\ ask[1] # None /\ bid[1] # None) =>
           /\ last.spawned <=> crossing
           /\ last.spawned =>
                 /\ last.pre.exchangeBoughtFrom = 0 /\ last.pre.exchangeSoldTo = 1
                 /\ last.pre.calls = 0 /\ last.post.calls = 1
                 /\ Len(trades) > 0 /\ trades[Len(trades)] = last.post
                 /\ pc \in {"loopA", "crashed"}
           /\ ~last.spawned =>
                 /\ pc = "loopB"
                 /\ orderbooks = last.orderbooks
                 /\ wallets = last.wallets

\* An iteration that found cost = proceeds and stopped.
C2_Witness ==
    LET ask == getLowestAsk(last.orderbooks[0])
        bid == getHighestBid(last.orderbooks[1])
    IN  /\ last.op = "loopA" /\ ask[1] # None /\ bid[1] # None
        /\ SpecCost(ask, bid, last.wallets[0]) = SpecProceeds(ask, bid, last.wallets[1])
        /\ ~last.spawned /\ pc = "loopB"

\* An iteration of one of the loops of Trader.step: its source venue, and
\* what it read.
IsLoop == last.op \in {"loopA", "loopB"}
LoopSrc == IF last.op = "loopA" THEN 0 ELSE 1
LoopAsk == getLowestAsk(last.orderbooks[LoopSrc])
LoopBid == getHighestBid(last.orderbooks[Other(LoopSrc)])
LoopQuoted == IsLoop /\ LoopAsk[1] # None /\ LoopBid[1] # None
\* Quantity the iteration took off the source ask level it read.
LoopRemoved == RSub(LoopAsk[2], QtyAt(orderbooks[LoopSrc].asks, LoopAsk[1]))
\* The spawned trade removes q, or what the source balance can pay for.
LoopRemovesQ ==
    LET q == RMin(LoopAsk[2], LoopBid[2])
        balance == getBalance(last.wallets[LoopSrc])
    IN  /\ last.spawned
        /\ last.pre.exchangeBoughtFrom = LoopSrc
        /\ LoopRemoved = IF RLe(balance, Zero) THEN Zero
                         ELSE RMin(q, RDiv(balance, LoopAsk[1]))

\* The cost with the withdrawal fee of the traded currency not scaled by the
\* ask price.
UnscaledCost(ask, bid, wSrc) ==
    RAdd(RAdd(RMul(RMul(ask[1], RAdd(One, wSrc.binanceFee)), RMin(ask[2], bid[2])),
              wSrc.withdrawalFees.traded),
         wSrc.withdrawalFees.base)

\* C3 (as stated): whenever askPrice*(1+feeSrc)*q + withdrawalFee(traded,src)
\* + withdrawalFee(base,src) < bidPrice*(1-feeDst)*q, a trade is created in
\* that direction and its step removes q (or less, the balance lacking) from
\* the source ask level.
C3_Original ==
    (LoopQuoted /\ RLt(UnscaledCost(LoopAsk, LoopBid, last.wallets[LoopSrc]),
                       SpecProceeds(LoopAsk, LoopBid, last.wallets[Other(LoopSrc)])))
    => LoopRemovesQ

\* C3 (amended): whenever askPrice*(1+feeSrc)*q +
\* askPrice*withdrawalFee(traded,src) + withdrawalFee(base,src) <
\* bidPrice*(1-feeDst)*q, a trade is created in that direction and its step
\* removes q (or less, the balance lacking) from the source ask level.
C3_Amended ==
    (LoopQuoted /\ RLt(SpecCost(LoopAsk, LoopBid, last.wallets[LoopSrc]),
                       SpecProceeds(LoopAsk, LoopBid, last.wallets[Other(LoopSrc)])))
    => LoopRemovesQ

\* A crossing whose trade removed exactly q > 0.
C3_Witness ==
    /\ LoopQuoted
    /\ RLt(SpecCost(LoopAsk, LoopBid, last.wallets[LoopSrc]),
           SpecProceeds(LoopAsk, LoopBid, last.wallets[Other(LoopSrc)]))
    /\ last.spawned
    /\ LoopRemoved = RMin(LoopAsk[2], LoopBid[2])
    /\ RLt(Zero, LoopRemoved)

RECURSIVE Volume(_)
Volume(side) == IF Len(side) = 0 THEN Zero ELSE RAdd(Head(side).qty, Volume(Tail(side)))

C5_AbortNoBalance ==
    (IsStep /\ last.pre.calls = 0 /\ RLe(BalanceRead, Zero)) =>
        /\ last.ret
        /\ orderbooks = last.orderbooks
        /\ wallets = last.wallets

C5_Witness ==
    /\ IsStep /\ last.pre.calls = 0 /\ RLe(BalanceRead, Zero) /\ last.ret
    /\ AskRead[1] # None /\ BidRead[1] # None

\* The quantity state 0 is to buy, from what the call read.
QuantityToBuy == RMin(RMin(AskRead[2], BidRead[2]), RDiv(BalanceRead, AskRead[1]))

\* C6: in state 0 with a positive balance, q = min(best-ask quantity at the
\* source, best-bid quantity at the destination, balance / askPrice); if
\* q <= 0 the step returns true and mutates nothing, else exactly q leaves
\* the source best-ask level and the destination book is untouched.
C6_QuantityBought ==
    (IsStep /\ last.pre.currentStep = 0 /\ RLt(Zero, BalanceRead) /\ ~last.err) =>
        IF RLe(QuantityToBuy, Zero)
        THEN last.ret /\ orderbooks = last.orderbooks /\ wallets = last.wallets
        ELSE /\ ~last.ret
             /\ Removed = QuantityToBuy
             /\ orderbooks[Src].asks =
                   (IF QuantityToBuy = AskRead[2] THEN <<>>
                    ELSE <<Level(AskRead[1], RSub(AskRead[2], QuantityToBuy))>>)
                   \o Tail(last.orderbooks[Src].asks)
             /\ orderbooks[Src].bids = last.orderbooks[Src].bids
             /\ orderbooks[Dst] = last.orderbooks[Dst]

\* A buy whose quantity was set by the balance.
C6_Witness ==
    /\ Bought
    /\ RLt(RDiv(BalanceRead, AskRead[1]), RMin(AskRead[2], BidRead[2]))
    /\ Removed = RDiv(BalanceRead, AskRead[1])

\* C7: a successful state-0 buy reduces the source base-currency balance by
\* exactly quantity * askPrice, the quantity being the amount removed from
\* the source ask level.
C7_BalanceReducedByCost ==
    Bought => RSub(BalanceRead, getBalance(wallets[Src])) = RMul(Removed, AskRead[1])

\* C8: after a successful state-0 buy the held quantity is the quantity
\* removed from the source ask level times (1 - feeSource), and no later
\* step of the trade changes it.
C8_HeldQuantity ==
    /\ Bought => last.post.amountInTradedCurrency =
                    RMul(Removed, RSub(One, last.wallets[Src].binanceFee))
    /\ (IsStep /\ last.pre.currentStep >= 1) =>
          last.post.amountInTradedCurrency = last.pre.amountInTradedCurrency

\* A buy at a venue that charges a trade fee.
C8_Witness ==
    /\ Bought /\ last.wallets[Src].binanceFee # Zero
    /\ RLt(last.post.amountInTradedCurrency, Removed)

\* C9: a step in state 1 made before tradedCurrencyTransferTime has elapsed
\* since the buy returns false and changes nothing; made at or after it, it
\* moves the trade to state 2.  The buy records the time it was made at.
C9_TransferOut ==
    /\ Bought => last.post.transferStartTime = last.now
    /\ (IsStep /\ last.pre.currentStep = 1) =>
          /\ ~last.ret
          /\ orderbooks = last.orderbooks /\ wallets = last.wallets
          /\ IF last.now - last.pre.transferStartTime < tradedCurrencyTransferTime
             THEN SameTrade
             ELSE last.post = [last.pre EXCEPT !.currentStep = 2,
                                               !.calls = last.pre.calls + 1]

\* A step in state 1 made exactly tradedCurrencyTransferTime after the buy.
C9_Witness ==
    /\ IsStep /\ last.pre.currentStep = 1 /\ last.post.currentStep = 2
    /\ last.now - last.pre.transferStartTime = tradedCurrencyTransferTime

\* C10: a step in state 3 made before baseCurrencyTransferTime has elapsed
\* since state 2 was left returns false and deposits nothing.
C10_TransferBack ==
    (/\ IsStep /\ last.pre.currentStep = 3
     /\ last.now - last.pre.transferStartTime < baseCurrencyTransferTime) =>
         ~last.ret /\ wallets = last.wallets

\* The last action was a call of CrossTrade.step made in state k.
StepIn(k) == IsStep /\ last.pre.currentStep = k
\* The call made in state 3 that completed the trade.
Completed == StepIn(3) /\ last.ret

StillActive ==
    last.op = "for" =>
        /\ currentTrades[i - 1] = last.post
        /\ \A k \in 1..Len(toPop) : toPop[k] # i - 1

\* C12: a trade leaves state 2 for state 3 only on a step call after which
\* amountSold >= the held quantity; a state-2 step call that ends with
\* amountSold < the held quantity leaves the trade in state 2, returns false
\* and keeps the trade among the pending trades.
C12_LeavesWhenSold ==
    StepIn(2) =>
       /\ last.post.currentStep \in {2, 3}
       /\ last.post.currentStep = 3 =>
             RLe(last.post.amountInTradedCurrency, last.post.amountSold)
       /\ RLt(last.post.amountSold, last.post.amountInTradedCurrency) =>
             /\ last.post.currentStep = 2
             /\ ~last.ret
             /\ StillActive

\* A state-2 call that sold a part of what the trade holds.
C12_Witness ==
    /\ StepIn(2) /\ last.op = "for"
    /\ RLt(Zero, last.post.amountSold)
    /\ RLt(last.post.amountSold, last.post.amountInTradedCurrency)
    /\ last.post.currentStep = 2 /\ ~last.ret

\* What the call took off the bids of the destination book: the quantity,
\* and the sum of price * quantity over the levels the call read.
SoldNow == RSub(Volume(last.orderbooks[Dst].bids), Volume(orderbooks[Dst].bids))

RECURSIVE ProceedsOver(_, _)
ProceedsOver(before, after) ==
    IF Len(before) = 0 THEN Zero
    ELSE RAdd(RMul(Head(before).price,
                   RSub(Head(before).qty, QtyAt(after, Head(before).price))),
              ProceedsOver(Tail(before), after))

ProceedsNow == ProceedsOver(last.orderbooks[Dst].bids, orderbooks[Dst].bids)

\* C13: a state-2 step call sells no more than the remainder the trade still
\* holds (held quantity - amountSold), so amountSold never exceeds the held
\* quantity.
C13_SellsOnlyRemainder ==
    StepIn(2) =>
       /\ RLe(SoldNow, RSub(last.pre.amountInTradedCurrency, last.pre.amountSold))
       /\ RLe(last.post.amountSold, last.post.amountInTradedCurrency)

\* C14: a state-2 step call adds what its liquidate sold to amountSold and
\* proceeds * (1 - feeDest) - withdrawalFee(base, Dest) to
\* amountToTransferBack, the fees being those of the destination wallet.
C14_Accumulators ==
    StepIn(2) =>
       /\ last.post.amountSold = RAdd(last.pre.amountSold, SoldNow)
       /\ last.post.amountToTransferBack =
             RAdd(last.pre.amountToTransferBack,
                  RSub(RMul(ProceedsNow, RSub(One, last.wallets[Dst].binanceFee)),
                       last.wallets[Dst].withdrawalFees.base))

\* A sale at a venue that charges both fees.
C14_Witness ==
    /\ StepIn(2)
    /\ RLt(Zero, SoldNow) /\ RLt(Zero, ProceedsNow)
    /\ last.wallets[Dst].binanceFee # Zero
    /\ last.wallets[Dst].withdrawalFees.base # Zero

\* C15: a step in state 1 leaves all books and wallets unchanged, a step in
\* state 2 leaves all wallets unchanged, a step in state 3 leaves all books
\* unchanged.
C15_Frame ==
    /\ StepIn(1) => orderbooks = last.orderbooks /\ wallets = last.wallets
    /\ StepIn(2) => wallets = last.wallets
    /\ StepIn(3) => orderbooks = last.orderbooks

\* A sale that changed the destination book, at a venue whose wallet holds
\* money and charges a withdrawal fee.
C15_Witness ==
    /\ StepIn(2)
    /\ orderbooks[Dst] # last.orderbooks[Dst]
    /\ RLt(Zero, getBalance(last.wallets[Dst]))
    /\ last.wallets[Dst].withdrawalFees.base # Zero

\* C16: once step has returned true for a trade, a further step call on
\* that trade changes no order book, no wallet and no field of the trade.
C16_DoneIsTerminal ==
    last.op = "again" =>
        /\ orderbooks = last.orderbooks
        /\ wallets = last.wallets
        /\ SameTrade

\* The last call on the book was liquidate; the bids before and after it.
IsLiquidate == last.op = "liquidate"
BidsBefore == last.orderbooks[0].bids
BidsAfter == orderbooks[0].bids

\* C17: for every book and every target x >= 0, liquidate(x) returns
\* amountSold <= x and <= the total bid volume before the call, and the
\* total bid volume after the call is the volume before minus amountSold.
C17_LiquidateBounded ==
    (IsLiquidate /\ RLe(Zero, last.quantity)) =>
        /\ RLe(last.amount, last.quantity)
        /\ RLe(last.amount, Volume(BidsBefore))
        /\ RLe(Zero, last.amount)
        /\ Volume(BidsAfter) = RSub(Volume(BidsBefore), last.amount)

\* A call that sold the whole of one level and a part of the next.
C17_Witness ==
    /\ IsLiquidate
    /\ Len(BidsBefore) = 2 /\ Len(BidsAfter) = 1
    /\ RLt(BidsBefore[1].qty, last.amount)
    /\ RLt(last.amount, Volume(BidsBefore))
    /\ last.amount = last.quantity

\* C18: liquidate(x) returns as proceeds the sum of price * taken over the
\* bid levels, taken being what the call removed from the level; when
\* x <= 0 or the bid side is empty it returns (0, 0) and leaves the book
\* unchanged.
C18_Proceeds ==
    IsLiquidate =>
        /\ last.received = ProceedsOver(BidsBefore, BidsAfter)
        /\ orderbooks[0].asks = last.orderbooks[0].asks
        /\ (RLe(last.quantity, Zero) \/ Len(BidsBefore) = 0) =>
              /\ last.amount = Zero /\ last.received = Zero
              /\ orderbooks = last.orderbooks

\* A call that took from two levels of different prices.
C18_Witness ==
    /\ IsLiquidate
    /\ Len(BidsBefore) = 2 /\ Len(BidsAfter) = 1
    /\ RLt(Zero, BidsBefore[1].qty)
    /\ RLt(BidsAfter[1].qty, BidsBefore[2].qty)
    /\ last.received = RAdd(RMul(BidsBefore[1].price, BidsBefore[1].qty),
                            RMul(BidsBefore[2].price,
                                 RSub(BidsBefore[2].qty, BidsAfter[1].qty)))

\* C19: when liquidate(targetQuantity) returns, amountSold = targetQuantity
\* or the bid side is empty.
C19_LiquidateToTheEnd ==
    (IsLiquidate /\ RLe(Zero, last.quantity)) =>
        \/ last.amount = last.quantity
        \/ Len(BidsAfter) = 0

\* The last call on the book was a reduce that found its level: the side it
\* was made on before and after, the other side before and after.
IsReduce == last.op \in {"reduceBid", "reduceAsk"} /\ ~last.err
SideBefore ==
    IF last.op = "reduceBid" THEN last.orderbooks[0].bids ELSE last.orderbooks[0].asks
SideAfter == IF last.op = "reduceBid" THEN orderbooks[0].bids ELSE orderbooks[0].asks
OtherBefore ==
    IF last.op = "reduceBid" THEN last.orderbooks[0].asks ELSE last.orderbooks[0].bids
OtherAfter == IF last.op = "reduceBid" THEN orderbooks[0].asks ELSE orderbooks[0].bids
\* "max(old - q, 0)"
Left == RMax(RSub(QtyAt(SideBefore, last.price), last.quantity), Zero)
\* The levels of a side at the other prices, in their order.
Others(side) == SelectSeq(side, LAMBDA l : l.price # last.price)

\* C20: reduceAsk(p, q) / reduceBid(p, q) on an existing level of quantity
\* old leaves max(old - q, 0) at p, returns old - max(old - q, 0), deletes
\* the level iff what is left is 0, and leaves every other level and the
\* opposite side unchanged.
C20_Reduce ==
    IsReduce =>
        /\ last.amount = RSub(QtyAt(SideBefore, last.price), Left)
        /\ HasLevel(SideAfter, last.price) <=> Left # Zero
        /\ QtyAt(SideAfter, last.price) = Left
        /\ Others(SideAfter) = Others(SideBefore)
        /\ Len(SideAfter) = Len(SideBefore) - (IF Left = Zero THEN 1 ELSE 0)
        /\ \A k \in 1..Len(SideAfter) :
              SideAfter[k].price = last.price => SideBefore[k].price = last.price
        /\ OtherAfter = OtherBefore

\* A reduce that left a part of the second level of its side, and one that
\* emptied a level.
C20_Witness ==
    /\ IsReduce
    /\ Len(SideBefore) = 2 /\ SideBefore[2].price = last.price
    /\ RLt(Zero, Left) /\ RLt(Left, SideBefore[2].qty)
    /\ SideAfter[2] = Level(last.price, Left)

\* The last call on the book was a reduce made at a price that has no level
\* on its side.
IsReduceMissing ==
    /\ last.op \in {"reduceBid", "reduceAsk"}
    /\ ~HasLevel(SideBefore, last.price)

\* C21: reduceBid(price, quantity) and reduceAsk(price, quantity) called
\* with a price that has no level return 0, raise no error and leave the
\* book unchanged.
C21_ReduceMissingSilent ==
    IsReduceMissing =>
        /\ ~last.err
        /\ last.amount = Zero
        /\ orderbooks = last.orderbooks
        /\ pc # "crashed"

\* What an iteration of a loop of Trader.step read was not both there.
LoopUnquoted == IsLoop /\ (LoopAsk[1] = None \/ LoopBid[1] = None)

\* C22: when the source book has no best ask or the destination book has no
\* best bid as a loop of Trader.step reads them, the loop stops at once: no
\* trade is created, nothing is mutated and no error is raised; with both
\* books empty Trader.step returns the empty list.
C22_StopsOnMissingQuote ==
    /\ LoopUnquoted =>
          /\ ~last.spawned /\ ~last.err
          /\ pc = (IF last.op = "loopA" THEN "loopB" ELSE "for")
          /\ orderbooks = last.orderbooks
          /\ wallets = last.wallets
    /\ (pc = "loopB" /\ \A v \in Venues : orderbooks[v] = EmptyBook) => trades = <<>>

\* Both loops stopped on empty books and the list returned is empty.
C22_Witness ==
    /\ last.op = "loopB" /\ LoopUnquoted /\ pc = "for"
    /\ \A v \in Venues : last.orderbooks[v] = EmptyBook
    /\ currentTrades = <<>> /\ nextId = 1

\* The source and the destination venue changed for each other.
Swap(f) == [v \in Venues |-> f[Other(v)]]

\* The A->B rule on given books and wallets: a trade is spawned when the best
\* ask at venue 0 and the best bid at venue 1 are there and cost < proceeds.
RuleAB(books, w) ==
    /\ getLowestAsk(books[0])[1] # None
    /\ getHighestBid(books[1])[1] # None
    /\ RLt(SpecCost(getLowestAsk(books[0]), getHighestBid(books[1]), w[0]),
           SpecProceeds(getLowestAsk(books[0]), getHighestBid(books[1]), w[1]))

\* C23: an iteration of the B->A loop spawns a CrossTrade(1, 0) exactly when
\* the A->B rule, with the books and the wallets of the two venues swapped,
\* would spawn a CrossTrade(0, 1).
C23_Mirror ==
    last.op = "loopB" =>
        /\ last.spawned <=> RuleAB(Swap(last.orderbooks), Swap(last.wallets))
        /\ last.spawned =>
              last.pre.exchangeBoughtFrom = 1 /\ last.pre.exchangeSoldTo = 0

\* A B->A trade spawned between venues of different fee schedules, and the
\* rule not holding the other way round.
C23_Witness ==
    /\ last.op = "loopB" /\ last.spawned
    /\ last.wallets[0].binanceFee # last.wallets[1].binanceFee
    /\ last.wallets[1].withdrawalFees.base # Zero
    /\ ~RuleAB(last.orderbooks, last.wallets)

\* What the A->B loop writes, replaced: the asks of the book of venue 0 and
\* the balance of the wallet of venue 0.
WithAsks0(books, asks) == [books EXCEPT ![0].asks = asks]
WithBalance0(w, amount) == [w EXCEPT ![0].baseCurrencyAmount = amount]
OtherAsks == {<<>>, Cheap.asks, Dear.asks, Between.asks}

\* The B->A iteration just made gave, on other books and wallets, the same
\* decision and (o being what the step of its trade gives there) the same
\* trade, asks of venue 1 and wallet of venue 1.
SameStepBA(o) ==
    /\ o.trade = last.post
    /\ o.err = last.err
    /\ o.orderbooks[1].asks = orderbooks[1].asks
    /\ o.wallets[1] = wallets[1]

SameIterationBA(books, w) ==
    /\ last.spawned <=>
          /\ getHighestBid(books[0])[1] # None
          /\ getLowestAsk(books[1])[1] # None
          /\ CrossesBA(getHighestBid(books[0]), getLowestAsk(books[1]), w)
    /\ last.spawned => SameStepBA(step(last.pre, books, w, last.now))

\* C29: an iteration of the A->B loop writes only the asks of book 0 and the
\* balance of wallet 0; an iteration of the B->A loop spawns the same trade
\* and makes the same changes to the asks of book 1 and to wallet 1 whatever
\* the asks of book 0 and the balance of wallet 0 are; in the list returned
\* every A->B trade comes before every B->A trade.
C29_LoopsIndependent ==
    /\ last.op = "loopA" =>
          /\ orderbooks[1] = last.orderbooks[1]
          /\ orderbooks[0].bids = last.orderbooks[0].bids
          /\ wallets[1] = last.wallets[1]
          /\ wallets[0] = [last.wallets[0] EXCEPT
                              !.baseCurrencyAmount = wallets[0].baseCurrencyAmount]
    /\ last.op = "loopB" =>
          \A asks \in OtherAsks, amount \in StartingAmounts :
              SameIterationBA(WithAsks0(last.orderbooks, asks),
                              WithBalance0(last.wallets, amount))
    /\ \A j \in 1..Len(trades), k \in 1..Len(trades) :
          (j < k /\ trades[j].exchangeBoughtFrom = 1) => trades[k].exchangeBoughtFrom = 1

\* A B->A trade spawned and bought in a call in which the A->B loop had
\* spawned and bought before.
C29_Witness ==
    /\ last.op = "loopB" /\ last.spawned /\ last.post.currentStep = 1
    /\ Len(trades) >= 2
    /\ trades[1].exchangeBoughtFrom = 0 /\ trades[1].currentStep = 1
    /\ trades[Len(trades)].exchangeBoughtFrom = 1

\* C24: in a tick a trade spawned in that tick is stepped only by the call
\* inside Trader.step: the for loop of main steps no trade created in the
\* tick under way.
C24_SteppedOncePerTick ==
    last.op = "for" => ~last.pre.fresh

\* The trades of a list whose index is not among the given indices, in
\* their order.
RECURSIVE KeptFrom(_, _, _)
KeptFrom(list, indices, k) ==
    IF k > Len(list) THEN <<>>
    ELSE (IF \E n \in 1..Len(indices) : indices[n] = k THEN <<>> ELSE <<list[k]>>)
         \o KeptFrom(list, indices, k + 1)

Ids(list) == {list[k].id : k \in 1..Len(list)}

\* C25: at the end of a tick the active set holds exactly the trades whose
\* step returned false in the for loop of that tick, in their order; every
\* trade whose step returned true is removed, however many finish and
\* wherever they stand, and a removed trade is in no list any more.
C25_PopsFinished ==
    /\ last.op = "pop" =>
          /\ currentTrades = Settled(KeptFrom(last.before, last.popped, 1))
          /\ \A n \in 1..Len(last.popped) :
                last.before[last.popped[n]].id \notin Ids(currentTrades)
    /\ (last.op = "for" /\ last.ret) => toPop[Len(toPop)] = i - 1
    /\ (last.op = "for" /\ ~last.ret) => \A n \in 1..Len(toPop) : toPop[n] # i - 1
    /\ Cardinality(Ids(currentTrades \o trades)) = Len(currentTrades) + Len(trades)
    /\ \A id \in Ids(currentTrades \o trades) : id < nextId

\* Two trades finished in one tick and a third stayed.
C25_Witness ==
    /\ last.op = "pop"
    /\ Len(last.popped) >= 2
    /\ Len(currentTrades) >= 1

\* C26: a step in state 2 that finds no bids in the destination book leaves
\* the trade in state 2 and returns false, however many calls the trade has
\* had; step returns true only from the abort of state 0 and from the
\* completion of state 3.
C26_NoTimeout ==
    IsStep =>
       /\ (last.pre.currentStep = 2 /\ Len(last.orderbooks[Dst].bids) = 0) =>
             /\ ~last.ret
             /\ last.post.currentStep = 2
             /\ last.post.amountSold = last.pre.amountSold
             /\ StillActive
       /\ last.ret =>
             \/ last.pre.currentStep = 0 /\ last.post.currentStep = 0
             \/ last.pre.currentStep = 3

\* A trade stepped in state 2 for the third time on a destination book with
\* no bids.
C26_Witness ==
    /\ StepIn(2) /\ last.op = "for"
    /\ Len(last.orderbooks[Dst].bids) = 0
    /\ last.pre.calls = MaxCalls - 1
    /\ last.post.currentStep = 2 /\ ~last.ret

\* C27: every call of Trader.step terminates: an iteration of one of its
\* loops that spawns a trade changes what the next iteration reads, a book
\* or a wallet (an iteration that changes neither is repeated without end).
C27_TraderTerminates ==
    (IsLoop /\ last.spawned /\ ~last.err) =>
        orderbooks # last.orderbooks \/ wallets # last.wallets

\* A level of the side `after` that was not on the side `before` with at
\* least its quantity.
Grown(before, after) ==
    \E k \in 1..Len(after) :
        \/ ~HasLevel(before, after[k].price)
        \/ RLt(QtyAt(before, after[k].price), after[k].qty)

\* C28: an iteration of a loop of Trader.step that spawns a trade lowers the
\* quantity at the best ask of the source book, or removes that level; no
\* call of step and no iteration of a loop adds a level to a book or raises
\* the quantity of a level.
C28_LiquidityConsumed ==
    /\ (LoopQuoted /\ last.spawned) => RLt(Zero, LoopRemoved)
    /\ (IsStep \/ IsLoop) =>
          \A v \in Venues :
              /\ ~Grown(last.orderbooks[v].bids, orderbooks[v].bids)
              /\ ~Grown(last.orderbooks[v].asks, orderbooks[v].asks)

\* A level of the bids after the call that is not the level of the same
\* place, counted from the end, before the call: but for the first level
\* left, whose quantity may be lower.
WalkedFrom(before, after) ==
    /\ Len(after) <= Len(before)
    /\ \A k \in 1..Len(after) :
          /\ after[k].price = before[k + Len(before) - Len(after)].price
          /\ IF k = 1
             THEN RLe(after[k].qty, before[k + Len(before) - Len(after)].qty)
             ELSE after[k].qty = before[k + Len(before) - Len(after)].qty

\* C30: liquidate walks the bids in the order of the book: the levels it
\* removed are the first ones, at most one level, the first one left, has a
\* part of its quantity taken, every level behind it is as it was, and the
\* asks are not touched.
C30_WalksInOrder ==
    IsLiquidate =>
        /\ WalkedFrom(BidsBefore, BidsAfter)
        /\ orderbooks[0].asks = last.orderbooks[0].asks
        /\ orderbooks[1] = last.orderbooks[1]

\* A call that removed the first level and left a part of the second, of a
\* book with asks.
C30_Witness ==
    /\ IsLiquidate
    /\ Len(BidsBefore) = 2 /\ Len(BidsAfter) = 1
    /\ BidsAfter[1].price = BidsBefore[2].price
    /\ RLt(Zero, BidsAfter[1].qty) /\ RLt(BidsAfter[1].qty, BidsBefore[2].qty)
    /\ Len(orderbooks[0].asks) = 1

\* The bids in descending, the asks in ascending order of price.
Descending(side) == \A k \in 1..(Len(side) - 1) : RLt(side[k + 1].price, side[k].price)
Ascending(side) == \A k \in 1..(Len(side) - 1) : RLt(side[k].price, side[k + 1].price)
Ordered(book) == Descending(book.bids) /\ Ascending(book.asks)
\* The last call on the book was one that returned.
IsBookCall == last.op \in {"liquidate", "reduceBid", "reduceAsk"} /\ ~last.err

\* C31: a book whose bids are in descending and whose asks are in ascending
\* order of price is so after a call of reduceBid, reduceAsk or liquidate;
\* on such a book bestBid is the highest bid and bestAsk the lowest ask, and
\* each is (none, none) exactly when its side is empty.
C31_OrderKept ==
    /\ (IsBookCall /\ Ordered(last.orderbooks[0])) => Ordered(orderbooks[0])
    /\ Ordered(orderbooks[0]) =>
          /\ getHighestBid(orderbooks[0])[1] = None <=> Len(orderbooks[0].bids) = 0
          /\ getLowestAsk(orderbooks[0])[1] = None <=> Len(orderbooks[0].asks) = 0
          /\ \A k \in 1..Len(orderbooks[0].bids) :
                /\ RLe(orderbooks[0].bids[k].price, getHighestBid(orderbooks[0])[1])
                /\ HasLevel(orderbooks[0].bids, getHighestBid(orderbooks[0])[1])
                /\ getHighestBid(orderbooks[0])[2] =
                      QtyAt(orderbooks[0].bids, getHighestBid(orderbooks[0])[1])
          /\ \A k \in 1..Len(orderbooks[0].asks) :
                /\ RLe(getLowestAsk(orderbooks[0])[1], orderbooks[0].asks[k].price)
                /\ HasLevel(orderbooks[0].asks, getLowestAsk(orderbooks[0])[1])
                /\ getLowestAsk(orderbooks[0])[2] =
                      QtyAt(orderbooks[0].asks, getLowestAsk(orderbooks[0])[1])

\* A reduce that left a part of the first of two ordered asks.
C31_Witness ==
    /\ last.op = "reduceAsk" /\ ~last.err
    /\ Ordered(last.orderbooks[0])
    /\ Len(last.orderbooks[0].asks) = 2 /\ Len(orderbooks[0].asks) = 2
    /\ last.price = last.orderbooks[0].asks[1].price
    /\ RLt(Zero, last.amount)
    /\ getLowestAsk(orderbooks[0])[1] = last.price

\* C32: in the tick loop no reduce call is made at a price that has no
\* level and state 0 never finds a side it reads empty: no step call raises
\* an error.
C32_ReduceFindsLevel ==
    /\ pc # "crashed"
    /\ IsStep => ~last.err
    /\ (StepIn(0) /\ RLt(Zero, BalanceRead)) =>
          /\ AskRead[1] # None /\ BidRead[1] # None
          /\ HasLevel(last.orderbooks[Src].asks, AskRead[1])

\* A buy of the B->A loop that took the whole of the level it read.
C32_Witness ==
    /\ Bought /\ last.op = "loopB" /\ ~last.err
    /\ HasLevel(last.orderbooks[Src].asks, AskRead[1])
    /\ ~HasLevel(orderbooks[Src].asks, AskRead[1])

\* The quantity bought by the trades of a list that bought at venue src:
\* what they hold, before the trade fee of the wallet w was taken off.
RECURSIVE SumBought(_, _, _)
SumBought(list, src, w) ==
    IF Len(list) = 0 THEN Zero
    ELSE RAdd(IF Head(list).exchangeBoughtFrom = src /\ Head(list).currentStep >= 1
              THEN RDiv(Head(list).amountInTradedCurrency, RSub(One, getTradeFee(w)))
              ELSE Zero,
              SumBought(Tail(list), src, w))

\* C33: within one call of Trader.step the quantities bought by the trades
\* spawned in one direction sum to no more than the volume of the bids of
\* the destination book (which the call never writes).
C33_SizedOnce ==
    pc \in {"loopA", "loopB"} =>
        \A src \in Venues :
            RLe(SumBought(trades, src, wallets[src]), Volume(orderbooks[Other(src)].bids))

\* C34: a state-2 step call whose liquidate sells nothing leaves
\* amountToTransferBack unchanged, and a call that is not the first to sell
\* takes no withdrawal fee off again: the fee is deducted once per trade.
C34_FeeOnce ==
    StepIn(2) =>
       /\ SoldNow = Zero => last.post.amountToTransferBack = last.pre.amountToTransferBack
       /\ RLt(Zero, last.pre.amountSold) =>
             last.post.amountToTransferBack =
                RAdd(last.pre.amountToTransferBack,
                     RMul(ProceedsNow, RSub(One, last.wallets[Dst].binanceFee)))

\* C35: the base-currency balance of each venue is never negative, and the
\* amountToTransferBack deposited at completion is never negative.
C35_NonNegative ==
    /\ \A v \in Venues : RLe(Zero, getBalance(wallets[v]))
    /\ Completed => RLe(Zero, last.pre.amountToTransferBack)

\* What a buy asks the source wallet for: the amount withdrawn and the
\* withdrawal fee of the base currency.
AskedOfWallet ==
    RAdd(RMul(last.post.amountInTradedCurrency, AskRead[1]),
         last.wallets[Src].withdrawalFees.base)

\* C36: what a state-0 buy asks the source wallet for is no more than the
\* balance read at the start of the step, and the balance after the buy is
\* the balance read minus that amount.
C36_BuyWithinBalance ==
    Bought =>
        /\ RLe(AskedOfWallet, BalanceRead)
        /\ getBalance(wallets[Src]) = RSub(BalanceRead, AskedOfWallet)

\* C39: a step call changes nothing of the wallet of the destination venue
\* and, of the wallet of the source venue, the base-currency balance alone:
\* it is lowered by a buy in state 0, and changed by the completion.
C39_OnlySourceBalance ==
    IsStep =>
       /\ wallets[Dst] = last.wallets[Dst]
       /\ wallets[Src] = [last.wallets[Src] EXCEPT
                             !.baseCurrencyAmount = wallets[Src].baseCurrencyAmount]
       /\ wallets[Src] # last.wallets[Src] =>
             \/ Bought /\ RLt(getBalance(wallets[Src]), BalanceRead)
             \/ Completed

\* A completion at a destination venue whose wallet holds money and charges
\* fees.
C39_Witness ==
    /\ Completed
    /\ wallets[Src] # last.wallets[Src]
    /\ RLt(Zero, getBalance(wallets[Dst]))
    /\ last.wallets[Dst].binanceFee # Zero

\* The books update() can leave at venue v if the book is the snapshot.
Snapshots(v) ==
    {[bids |-> Take(f.bids, depth), asks |-> Take(f.asks, depth)] : f \in Feed[v]}

\* C40: after update() the book of a venue holds exactly the levels of the
\* snapshot fetched, cut to `depth`, in the order of the snapshot (the head
\* of a tick either updates both books or leaves them as they were).
C40_UpdateReplaces ==
    last.op = "tick" =>
        \A v \in Venues :
            orderbooks[v] = last.orderbooks[v] \/ orderbooks[v] \in Snapshots(v)

\* The state-2 step of the trade just bought, made on the books as they are.
SaleNow == StepLiquidate([last.post EXCEPT !.currentStep = 2], orderbooks, wallets, now)
\* What the buy took off the balance of the source wallet.
Debited == RSub(BalanceRead, getBalance(wallets[Src]))
\* A trade spawned by a loop of Trader.step has bought, the wallet paid all
\* it was asked for, and the quantity held fills at the bid read at detection.
FillsAtDetection ==
    /\ Bought /\ last.op \in {"loopA", "loopB"}
    /\ RLe(AskedOfWallet, BalanceRead)
    /\ BidRead = getHighestBid(orderbooks[Dst])
    /\ RLe(LiquidateTarget(last.post), BidRead[2])

\* C37: for a trade spawned by Trader.step that sells all it holds in one
\* state-2 call at the bid price read at detection, the amount deposited at
\* completion is greater than the amount debited by the buy.
C37_FeesCompose ==
    (FillsAtDetection /\ SaleNow.trade.currentStep = 3) =>
        RLt(Debited, SaleNow.trade.amountToTransferBack)

\* The trade numbered k is among the pending trades.
Active(k) == \E j \in 1..Len(currentTrades) : currentTrades[j].id = k
\* At the head of a tick the trade numbered k is in state 2 and the bids of
\* the book it sells to hold at least the quantity it holds.
SellableAtTick(k) ==
    /\ last.op = "tick"
    /\ \E j \in 1..Len(currentTrades) :
          /\ currentTrades[j].id = k
          /\ currentTrades[j].currentStep = 2
          /\ RLe(LiquidateTarget(currentTrades[j]),
                 Volume(orderbooks[currentTrades[j].exchangeSoldTo].bids))

\* C38: if ticks keep occurring (and the clock keeps moving), a trade that
\* is in state 2 at a tick at which the destination book holds bids of total
\* volume at least the quantity it holds is eventually no longer among the
\* pending trades.
C38_Completes ==
    []<><<TickLive>>_vars =>
        \A k \in 1..MaxTrades : SellableAtTick(k) ~> ~Active(k)

====
